---- MODULE Spec2Model ----
(***************************************************************************)
(* Model of resistance_calculator_v2.1.py: the HullParameters dataclass    *)
(* (validation and completion of the hull geometry) and the                *)
(* ResistanceCalculator (Holtrop and simplified resistance over a speed    *)
(* sweep, the stored result dictionary, export / plot / print_summary).    *)
(*                                                                         *)
(* Numbers.  The program computes with Python floats and numpy float64     *)
(* arrays.  A float is modelled in sign-magnitude form, as IEEE 754 has    *)
(* it, by a record                                                         *)
(*     [k |-> kind, s |-> sign, m |-> mantissa, e |-> exponent]            *)
(* of kind "fin" (value s * m * 10^e with s in {1, -1}; five significant   *)
(* decimal digits, results truncated; m = 0 is the zero of sign s),        *)
(* "inf" (the infinity of sign s), "nan", "none" (Python None), "cplx"     *)
(* (a complex result of float power) or "err" (a Python exception raised   *)
(* while evaluating; it propagates through every later operation).         *)
(***************************************************************************)
EXTENDS Integers, Sequences, FiniteSets, TLC

\* ------------------------------------------------------------------------
\* Float values
\* ------------------------------------------------------------------------
Abs(x) == IF x < 0 THEN -x ELSE x

F(kind, sign, mant, expo) == [k |-> kind, s |-> sign, m |-> mant, e |-> expo]

NaN == F("nan", 1, 0, 0)

PInf == F("inf", 1, 0, 0)

NInf == F("inf", -1, 0, 0)

None == F("none", 1, 0, 0)

Err == F("err", 1, 0, 0)

Cplx == F("cplx", 1, 0, 0)

Zero == F("fin", 1, 0, 0)

NegZero == F("fin", -1, 0, 0)

RECURSIVE Pow10Int(_)
Pow10Int(n) == IF n <= 0 THEN 1 ELSE 10 * Pow10Int(n - 1)

\* Normalise a non-negative mantissa to five significant digits (truncating).
RECURSIVE NormU(_, _)
NormU(mant, expo) ==
    IF mant = 0 THEN <<0, 0>>
    ELSE IF mant >= 100000 THEN NormU(mant \div 10, expo + 1)
    ELSE IF mant < 10000 THEN NormU(mant * 10, expo - 1)
    ELSE <<mant, expo>>

\* The finite result of sign s and magnitude mant * 10^expo, with float64's
\* range: overflow gives the infinity of that sign, underflow its zero.
MkFin(s, mant, expo) ==
    LET n == NormU(mant, expo)
    IN  IF n[1] = 0 THEN F("fin", s, 0, 0)
        ELSE IF n[2] + 4 > 308 THEN F("inf", s, 0, 0)
        ELSE IF n[2] + 4 < -324 THEN F("fin", s, 0, 0)
        ELSE F("fin", s, n[1], n[2])

\* The float literal mant * 10^expo.
Dec(mant, expo) == MkFin(IF mant < 0 THEN -1 ELSE 1, Abs(mant), expo)

IsFin(a) == a.k = "fin"

IsInf(a) == a.k = "inf"

IsZero(a) == a.k = "fin" /\ a.m = 0

\* numeric sign of a finite or infinite value: -1, 0 or 1
SignOf(a) == IF IsZero(a) THEN 0 ELSE a.s

\* An operand that makes the whole expression raise or leave the reals.
Sticky(a, b) ==
    IF a.k \in {"err", "none"} \/ b.k \in {"err", "none"} THEN Err
    ELSE IF a.k = "cplx" \/ b.k = "cplx" THEN Cplx
    ELSE NaN

IsSticky(a) == a.k \in {"err", "none", "cplx", "nan"}

FNeg(a) == IF IsSticky(a) THEN Sticky(a, a) ELSE [a EXCEPT !.s = -a.s]

\* a + b on finite operands: the exponents are aligned, the sum truncated;
\* an exact zero sum is +0 unless both operands are -0
AddFin(a, b) ==
    IF a.m = 0 /\ b.m = 0 THEN (IF a.s = -1 /\ b.s = -1 THEN NegZero ELSE Zero)
    ELSE IF a.m = 0 THEN b
    ELSE IF b.m = 0 THEN a
    ELSE LET hi == IF a.e >= b.e THEN a ELSE b
             lo == IF a.e >= b.e THEN b ELSE a
             d  == hi.e - lo.e
             sum == IF d <= 4 THEN hi.s * hi.m * Pow10Int(d) + lo.s * lo.m
                    ELSE IF d <= 9
                         THEN hi.s * hi.m * 10000 + lo.s * (lo.m \div Pow10Int(d - 4))
                    ELSE hi.s * hi.m * 10000
             ex == IF d <= 4 THEN lo.e ELSE hi.e - 4
         IN  IF sum = 0 THEN Zero
             ELSE MkFin(IF sum < 0 THEN -1 ELSE 1, Abs(sum), ex)

FAdd(a, b) ==
    IF IsSticky(a) \/ IsSticky(b) THEN Sticky(a, b)
    ELSE IF IsInf(a) THEN (IF IsInf(b) /\ b.s # a.s THEN NaN ELSE a)
    ELSE IF IsInf(b) THEN b
    ELSE AddFin(a, b)

FSub(a, b) == FAdd(a, FNeg(b))

\* floor(x * y / 10^4) for 0 <= x, y < 10^5 without leaving 32 bits
MulS(x, y) == (x * (y \div 100) + (x * (y % 100)) \div 100) \div 100

FMul(a, b) ==
    IF IsSticky(a) \/ IsSticky(b) THEN Sticky(a, b)
    ELSE IF IsInf(a) \/ IsInf(b)
         THEN (IF IsZero(a) \/ IsZero(b) THEN NaN ELSE F("inf", a.s * b.s, 0, 0))
    ELSE MkFin(a.s * b.s, MulS(a.m, b.m), a.e + b.e + 4)

\* digits of x / y after the integer part, by long division
RECURSIVE LongDiv(_, _, _, _)
LongDiv(q, r, y, steps) ==
    IF steps = 0 THEN q
    ELSE LongDiv(q * 10 + (r * 10) \div y, (r * 10) % y, y, steps - 1)

\* numpy true_divide: a division by zero gives an infinity whose sign is the
\* product of the operands' signs (nan for 0/0), with a warning, not an error
FDivNp(a, b) ==
    IF IsSticky(a) \/ IsSticky(b) THEN Sticky(a, b)
    ELSE IF IsInf(a) THEN (IF IsInf(b) THEN NaN ELSE F("inf", a.s * b.s, 0, 0))
    ELSE IF IsInf(b) THEN F("fin", a.s * b.s, 0, 0)
    ELSE IF b.m = 0 THEN (IF a.m = 0 THEN NaN ELSE F("inf", a.s * b.s, 0, 0))
    ELSE MkFin(a.s * b.s, LongDiv(a.m \div b.m, a.m % b.m, b.m, 5), a.e - b.e - 5)

\* Python float division: a division by zero raises ZeroDivisionError
FDivPy(a, b) ==
    IF IsSticky(a) \/ IsSticky(b) THEN Sticky(a, b)
    ELSE IF IsZero(b) THEN Err
    ELSE FDivNp(a, b)

\* comparisons of floats: every comparison with nan is false, -0 equals +0
FLt(a, b) ==
    IF IsSticky(a) \/ IsSticky(b) THEN FALSE
    ELSE IF IsInf(a) /\ IsInf(b) THEN a.s < b.s
    ELSE SignOf(FSub(a, b)) < 0

FLe(a, b) ==
    IF IsSticky(a) \/ IsSticky(b) THEN FALSE
    ELSE IF IsInf(a) /\ IsInf(b) THEN a.s <= b.s
    ELSE SignOf(FSub(a, b)) <= 0

FEq(a, b) == FLe(a, b) /\ FLe(b, a)

RECURSIVE IsqrtB(_, _, _)
IsqrtB(n, lo, hi) ==
    IF lo >= hi THEN lo
    ELSE LET mid == (lo + hi + 1) \div 2
         IN  IF mid * mid <= n THEN IsqrtB(n, mid, hi) ELSE IsqrtB(n, lo, mid - 1)

\* numpy sqrt: nan for a negative number, sqrt(-0) = -0
FSqrt(a) ==
    IF IsSticky(a) THEN Sticky(a, a)
    ELSE IF IsZero(a) THEN a
    ELSE IF a.s < 0 THEN NaN
    ELSE IF IsInf(a) THEN PInf
    ELSE IF a.e % 2 = 0
         THEN MkFin(1, IsqrtB(a.m * 10000, 0, 31622), (a.e - 4) \div 2)
         ELSE MkFin(1, IsqrtB(a.m * 1000, 0, 31622), (a.e - 3) \div 2)

\* binary digits of log10(y / 10^4) for 10^4 <= y < 10^5, by repeated squaring
RECURSIVE LogBits(_, _, _)
LogBits(y, acc, steps) ==
    IF steps = 0 THEN acc
    ELSE LET sq == MulS(y, y)
         IN  IF sq >= 100000 THEN LogBits(sq \div 10, 2 * acc + 1, steps - 1)
             ELSE LogBits(sq, 2 * acc, steps - 1)

\* log10 of the finite positive value m * 10^e, as an integer scaled by 10^4
Log10Scaled(a) == (a.e + 4) * 10000 + (LogBits(a.m, 0, 14) * 10000) \div 16384

\* numpy log10: log10(+-0) = -inf, log10 of a negative number is nan
FLog10(a) ==
    IF IsSticky(a) THEN Sticky(a, a)
    ELSE IF IsZero(a) THEN NInf
    ELSE IF a.s < 0 THEN NaN
    ELSE IF IsInf(a) THEN PInf
    ELSE LET l == Log10Scaled(a) IN MkFin(IF l < 0 THEN -1 ELSE 1, Abs(l), -4)

RECURSIVE MulTimes(_, _, _)
MulTimes(x, c, n) == IF n = 0 THEN x ELSE MulTimes((x * c) \div 10000, c, n - 1)

\* 10^(fp / 10^4) scaled by 10^4, for 0 <= fp < 10^4, digit by digit from
\* 10^0.1, 10^0.01, 10^0.001 and 10^0.0001
TenToFrac(fp) ==
    MulTimes(MulTimes(MulTimes(MulTimes(10000,
        12589, fp \div 1000),
        10233, (fp \div 100) % 10),
        10023, (fp \div 10) % 10),
        10002, fp % 10)

\* 10^t for a float t
Pow10(t) ==
    IF IsSticky(t) THEN Sticky(t, t)
    ELSE IF IsInf(t) THEN (IF t.s > 0 THEN PInf ELSE Zero)
    ELSE IF t.m = 0 THEN Dec(1, 0)
    ELSE IF t.e + 4 >= 3 THEN (IF t.s > 0 THEN PInf ELSE Zero)
    ELSE LET mag == IF t.e >= -4 THEN t.m * Pow10Int(t.e + 4)
                    ELSE IF t.e >= -9 THEN t.m \div Pow10Int(-4 - t.e)
                    ELSE 0
             sc == t.s * mag
         IN  MkFin(1, TenToFrac(sc % 10000), (sc \div 10000) - 4)

Log10E == Dec(43429, -5)

\* numpy exp: exp(-inf) = 0, exp(inf) = inf
FExp(a) == Pow10(FMul(a, Log10E))

\* Python float ** float for a finite exponent y that is not an integer
FPowPy(x, y) ==
    IF IsSticky(x) \/ IsSticky(y) THEN Sticky(x, y)
    ELSE IF IsZero(y) THEN Dec(1, 0)
    ELSE IF IsZero(x) THEN (IF y.s > 0 THEN Zero ELSE Err)
    ELSE IF x.s < 0 THEN (IF IsInf(x) THEN (IF y.s > 0 THEN PInf ELSE Zero) ELSE Cplx)
    ELSE IF IsInf(x) THEN (IF y.s > 0 THEN PInf ELSE Zero)
    ELSE Pow10(FMul(y, FLog10(x)))

\* x ** 2 and x ** 3
FSquare(x) == FMul(x, x)

FCube(x) == FMul(FMul(x, x), x)

\* Python's fixed-point format '{x:.Nf}': the value rounded to N decimals
\* (half up on the decimal digits the model keeps); nan and inf print as such
FormatF(x, decimals) ==
    IF ~IsFin(x) THEN x
    ELSE IF x.m = 0 THEN F("fin", x.s, 0, -decimals)
    ELSE LET shift == x.e + decimals
         IN  IF shift >= 0 THEN x
             ELSE IF shift < -6 THEN F("fin", x.s, 0, -decimals)
             ELSE F("fin", x.s,
                    (x.m + 5 * Pow10Int(-shift - 1)) \div Pow10Int(-shift),
                    -decimals)

\* ------------------------------------------------------------------------
\* Config (class attributes)
\* ------------------------------------------------------------------------
WATER_DENSITY == Dec(1025, 0)

KINEMATIC_VISCOSITY == Dec(11892, -10)

GRAVITY == Dec(981, -2)

Pi == Dec(314159265, -8)

Languages == {"english", "portuguese"}

\* ------------------------------------------------------------------------
\* HullParameters
\* ------------------------------------------------------------------------
HullFields == <<"L", "B", "T", "CB", "CM", "LCB", "S", "V", "APP">>

\* the dataclass-generated __init__: the nine arguments stored as given
HullInit(L, B, T, CB, CM, LCB, S, V, APP) ==
    [L |-> L, B |-> B, T |-> T, CB |-> CB, CM |-> CM, LCB |-> LCB,
     S |-> S, V |-> V, APP |-> APP]

NoHull == HullInit(None, None, None, None, None, None, None, None, None)

Violation(rule, text, arg) == [rule |-> rule, text |-> text, arg |-> arg]

\* _validate_parameters: the list `errors`, in the order the checks append
ValidationErrors(h) ==
    (IF FLe(h.L, Zero)
       THEN <<Violation("L", "Comprimento deve ser positivo", None)>> ELSE <<>>)
    \o (IF FLe(h.B, Zero)
          THEN <<Violation("B", "Boca deve ser positiva", None)>> ELSE <<>>)
    \o (IF FLe(h.T, Zero)
          THEN <<Violation("T", "Calado deve ser positivo", None)>> ELSE <<>>)
    \o (IF ~(FLe(Dec(3, -1), h.CB) /\ FLe(h.CB, Dec(1, 0)))
          THEN <<Violation("CB", "Coeficiente de bloco deve estar entre 0.3 e 1.0", h.CB),
                 Violation("hint", "Dica: Para barcos rapidos, use CB entre 0.35-0.45", None)>>
          ELSE <<>>)

\* the wetted-surface regression of _calculate_missing_parameters
WettedSurface(h, V) ==
    FAdd(
      FMul(FMul(FMul(h.L, FAdd(FMul(Dec(2, 0), h.T), h.B)), FSqrt(h.CB)),
           FAdd(FSub(FSub(FAdd(Dec(453, -3), FMul(Dec(4425, -4), h.CB)),
                          FMul(Dec(2862, -4), FSquare(h.CB))),
                     FDivPy(FMul(Dec(3467, -6), h.B), h.T)),
                FDivPy(FMul(FMul(Dec(3696, -4), h.CB), h.B), h.T))),
      FDivPy(FDivPy(FMul(Dec(238, -2), V), h.CB), h.L))

PropellerArea(h) == FMul(FMul(Dec(5, -1), Pi), FSquare(FMul(Dec(7, -1), h.T)))

\* _calculate_missing_parameters with the wetted surface taken from the
\* displacement formula L*B*T*CB instead of the resolved self.V
CalculateMissingSBeforeV(h) ==
    LET s == IF h.S = None
             THEN WettedSurface(h, FMul(FMul(FMul(h.L, h.B), h.T), h.CB))
             ELSE h.S
    IN  [h EXCEPT !.V = IF h.V = None THEN FMul(FMul(FMul(h.L, h.B), h.T), h.CB)
                        ELSE h.V,
                  !.S = s,
                  !.CM = IF h.CM = None THEN Dec(98, -2) ELSE h.CM,
                  !.LCB = IF h.LCB = None THEN Dec(5, -1) ELSE h.LCB,
                  !.APP = IF h.APP = None THEN PropellerArea(h) ELSE h.APP]

\* _calculate_missing_parameters: V first, then S (which reads self.V), then
\* CM, LCB and APP; a field is assigned only when it is None
CalculateMissing(h) ==
    LET v == IF h.V = None THEN FMul(FMul(FMul(h.L, h.B), h.T), h.CB) ELSE h.V
        s == IF h.S = None THEN WettedSurface(h, v) ELSE h.S
    IN  [h EXCEPT !.V = v,
                  !.S = s,
                  !.CM = IF h.CM = None THEN Dec(98, -2) ELSE h.CM,
                  !.LCB = IF h.LCB = None THEN Dec(5, -1) ELSE h.LCB,
                  !.APP = IF h.APP = None THEN PropellerArea(h) ELSE h.APP]

\* labels of HullParameters.summary, one per printed line
SummaryLabels(lang) ==
    IF lang = "portuguese"
    THEN <<"PARAMETROS DO CASCO:", "Comprimento (LWL)", "Boca (B)", "Calado (T)",
           "Coef. Bloco (CB)", "Coef. Secao Mestra (CM)", "Centro de Carena (LCB)",
           "Volume Deslocamento", "Area Molhada", "Area do Helice">>
    ELSE <<"HULL PARAMETERS:", "Length (LWL)", "Beam (B)", "Draft (T)",
           "Block Coefficient (CB)", "Midship Coefficient (CM)",
           "Longitudinal Center (LCB)", "Displacement Volume",
           "Wetted Surface Area", "Propeller Area">>

\* the nine formatted values of HullParameters.summary
SummaryValues(h) ==
    <<FormatF(h.L, 2), FormatF(h.B, 2), FormatF(h.T, 2), FormatF(h.CB, 3),
      FormatF(h.CM, 3), FormatF(h.LCB, 1), FormatF(h.V, 0), FormatF(h.S, 0),
      FormatF(h.APP, 1)>>

\* `language or Config.LANGUAGE`: None (and the empty string) fall back to
\* the class attribute
EffectiveLanguage(languageArg, configLanguage) ==
    IF languageArg = "None" THEN configLanguage ELSE languageArg

\* ------------------------------------------------------------------------
\* Bounds and input sets
\* ------------------------------------------------------------------------
\* longest speed sequence a caller passes
MaxN == 2

\* A speed sweep (m/s), in increasing order: reverse flow, standstill (the
\* two zeros of float64), the speed that makes Rn = 100 for the hull of
\* length 1.1892 m, and an ordinary speed
SpeedSweep == <<Dec(-1, 0), NegZero, Zero, Dec(1, -4), Dec(2, 0)>>

SpeedValues == {SpeedSweep[i] : i \in 1..Len(SpeedSweep)}

\* the sweeps a caller passes: the increasing selections of up to MaxN speeds
SpeedSeqs ==
    UNION {{[i \in 1..n |-> SpeedSweep[pick[i]]] :
              pick \in {p \in [1..n -> 1..Len(SpeedSweep)] :
                          \A i \in 1..n, j \in 1..n : i < j => p[i] < p[j]}} :
           n \in 1..MaxN}

SpeedKinds == {"list", "ndarray"}

\* the values a caller writes into a speed array it still holds
WriteValues == {Dec(2, 0)}

LanguageArgs == {"None", "english", "portuguese"}

\* hulls of the calculator runs: the 1.1892 m hull with everything derived,
\* with a displacement of zero supplied, and a rejected one
EngineHullV == {None, Zero}

EngineHullL == {Zero, Dec(11892, -4)}

EngineHullArgs(L, V) ==
    HullInit(L, Dec(5, -1), Dec(25, -2), Dec(7, -1), None, None, None, V, None)

\* ------------------------------------------------------------------------
\* ResistanceCalculator: the formulas
\* ------------------------------------------------------------------------
\* the speed-independent regression constants of calculate_holtrop
HoltropConstants(h) ==
    LET c1 == FMul(FMul(Dec(2223105, 0),
                        FPowPy(FDivPy(h.B, h.L), Dec(107961, -5))),
                   FPowPy(FSub(Dec(90, 0), Dec(3, -1)), Dec(-137565, -5)))
        bt == FMul(h.B, h.T)
    IN  [c1 |-> c1,
         c2 |-> FExp(FMul(Dec(-189, -2), FSqrt(c1))),
         c3 |-> FDivNp(FMul(Dec(56, -2), FPowPy(bt, Dec(15, -1))),
                       FMul(h.V, FAdd(FMul(Dec(31, -2), FSqrt(bt)), h.T))),
         c12 |-> FDivPy(FCube(h.L), h.V),
         c13 |-> FAdd(Dec(1, 0), FMul(Dec(3, -3), h.LCB))]

\* one element of the arrays calculate_holtrop computes, for the speed v
HoltropSample(h, c, v) ==
    LET Fn == FDivNp(v, FSqrt(FMul(GRAVITY, h.L)))
        Rn == FDivNp(FMul(v, h.L), KINEMATIC_VISCOSITY)
        CF == FDivNp(Dec(75, -3), FSquare(FSub(FLog10(Rn), Dec(2, 0))))
        RF == FMul(FMul(FMul(FMul(Dec(5, -1), WATER_DENSITY), FSquare(v)), h.S), CF)
        RR == FMul(FMul(FMul(FMul(FMul(FMul(FMul(h.V, WATER_DENSITY), GRAVITY),
                                            c.c2), c.c3),
                             FPowPy(c.c12, Dec(4, -3))),
                        FExp(FDivNp(Dec(-9, -1), Fn))),
                   c.c13)
        RTotal == FAdd(RF, RR)
    IN  [speed_knots |-> FMul(v, Dec(1944, -3)),
         froude |-> Fn,
         reynolds |-> Rn,
         resistance_total_N |-> RTotal,
         resistance_total_kN |-> FDivNp(RTotal, Dec(1000, 0)),
         resistance_friction_N |-> RF,
         residual_resistance_N |-> RR,
         cf_coefficient |-> CF,
         effective_power_kW |-> FDivNp(FMul(RTotal, v), Dec(1000, 0))]

\* one element of the arrays calculate_simple computes, for the speed v
SimpleSample(h, v) ==
    LET Fn == FDivNp(v, FSqrt(FMul(GRAVITY, h.L)))
        RTotal == FMul(FMul(FMul(FMul(Dec(5, -1), WATER_DENSITY), FSquare(v)), h.S),
                       FAdd(Dec(1, -3), FMul(Dec(2, -3), FSquare(Fn))))
    IN  [speed_knots |-> FMul(v, Dec(1944, -3)),
         froude |-> Fn,
         resistance_total_N |-> RTotal,
         resistance_total_kN |-> FDivNp(RTotal, Dec(1000, 0)),
         effective_power_kW |-> FDivNp(FMul(RTotal, v), Dec(1000, 0))]

\* The elementwise results for the hulls and speeds of the calculator runs,
\* evaluated once: every array element depends on its own speed only.
EngineHulls ==
    {CalculateMissing(EngineHullArgs(L, V)) :
        L \in {x \in EngineHullL : ValidationErrors(EngineHullArgs(x, None)) = <<>>},
        V \in EngineHullV}

SampleTable ==
    {[h |-> h, v |-> v,
      holtrop |-> HoltropSample(h, HoltropConstants(h), v),
      simple |-> SimpleSample(h, v)] : h \in EngineHulls, v \in SpeedValues}

InTable(h, v) == \E r \in SampleTable : r.h = h /\ r.v = v

TableRow(h, v) == CHOOSE r \in SampleTable : r.h = h /\ r.v = v

HoltropElement(h, v) ==
    IF InTable(h, v) THEN TableRow(h, v).holtrop
    ELSE HoltropSample(h, HoltropConstants(h), v)

SimpleElement(h, v) ==
    IF InTable(h, v) THEN TableRow(h, v).simple ELSE SimpleSample(h, v)

\* the keys of the result dictionaries, in the order the dict literals give
HoltropKeys ==
    <<"speed_mps", "speed_knots", "froude", "reynolds", "resistance_total_N",
      "resistance_total_kN", "resistance_friction_N", "residual_resistance_N",
      "cf_coefficient", "effective_power_kW">>

SimpleKeys ==
    <<"speed_mps", "speed_knots", "froude", "resistance_total_N",
      "resistance_total_kN", "effective_power_kW">>

Item(key, val) == [key |-> key, val |-> val]

\* self.results = None
NoResults == [isNone |-> TRUE, items |-> <<>>, speedsRef |-> "own"]

\* np.asarray(speeds): an ndarray argument is returned as the same object, a
\* list is copied into a new array
AsArrayRef(kind) == IF kind = "ndarray" THEN "caller" ELSE "own"

\* the dict literal of calculate_holtrop; 'speed_mps' is the array `speeds`
\* itself (held by reference), every other value is a newly computed array
HoltropResults(h, speeds, kind) ==
    LET smp == [i \in 1..Len(speeds) |-> HoltropElement(h, speeds[i])]
        col(key) == [i \in 1..Len(speeds) |-> smp[i][key]]
    IN  [isNone |-> FALSE,
         items |-> [j \in 1..Len(HoltropKeys) |->
                      IF j = 1
                      THEN Item(HoltropKeys[1],
                                IF AsArrayRef(kind) = "caller" THEN <<>> ELSE speeds)
                      ELSE Item(HoltropKeys[j], col(HoltropKeys[j]))],
         speedsRef |-> AsArrayRef(kind)]

\* the dict literal of calculate_simple
SimpleResults(h, speeds, kind) ==
    LET smp == [i \in 1..Len(speeds) |-> SimpleElement(h, speeds[i])]
        col(key) == [i \in 1..Len(speeds) |-> smp[i][key]]
    IN  [isNone |-> FALSE,
         items |-> [j \in 1..Len(SimpleKeys) |->
                      IF j = 1
                      THEN Item(SimpleKeys[1],
                                IF AsArrayRef(kind) = "caller" THEN <<>> ELSE speeds)
                      ELSE Item(SimpleKeys[j], col(SimpleKeys[j]))],
         speedsRef |-> AsArrayRef(kind)]

\* whether evaluating calculate_holtrop raises: L**3 / V is a division of
\* Python floats, so V == 0 raises ZeroDivisionError before self.results is
\* assigned
HoltropRaises(h) == FDivPy(FCube(h.L), h.V).k = "err"

\* ------------------------------------------------------------------------
\* State
\* ------------------------------------------------------------------------
VARIABLES
    hull,          \* the HullParameters object the caller holds (NoHull: none yet)
    engine,        \* whether a ResistanceCalculator has been constructed
    results,       \* ResistanceCalculator.results
    language,      \* Config.LANGUAGE
    callerSpeeds,  \* the ndarray the caller passed to the compute call that
                   \* built self.results, which the caller still holds
    last           \* the last call the caller made (a function, a method or
                   \* an array write) and what it returned, printed or raised

vars == <<hull, engine, results, language, callerSpeeds, last>>

HullExists == hull # NoHull

NoSpeeds == [kind |-> "none", data |-> <<>>]

\* a call (op with its language, file or sequence-type argument; for a
\* constructor or compute call, `values` holds the numbers passed), the
\* exception it raised with its message, and what it returned or printed
Outcome(op, arg, raised, msg, labels, values, rows) ==
    [op |-> op, arg |-> arg, raised |-> raised, msg |-> msg, labels |-> labels,
     values |-> values, rows |-> rows]

Returned(op) == Outcome(op, "", "", <<>>, <<>>, <<>>, <<>>)

\* raise ValueError("Execute o calculo primeiro")
NoResultError(op) ==
    Outcome(op, "", "ValueError", <<"Execute o calculo primeiro">>, <<>>, <<>>, <<>>)

IsNoResultError(o) ==
    o.raised = "ValueError" /\ o.msg = <<"Execute o calculo primeiro">>

\* the value stored under `key` in self.results, read through the reference
\* held for 'speed_mps'
ResultField(key) ==
    LET j == CHOOSE j \in 1..Len(results.items) : results.items[j].key = key
    IN  IF key = "speed_mps" /\ results.speedsRef = "caller"
        THEN callerSpeeds.data
        ELSE results.items[j].val

ResultKeys == [j \in 1..Len(results.items) |-> results.items[j].key]

HasKey(key) == \E j \in 1..Len(results.items) : results.items[j].key = key

Init ==
    /\ hull = NoHull
    /\ engine = "absent"
    /\ results = NoResults
    /\ language = "english"
    /\ callerSpeeds = NoSpeeds
    /\ last = Returned("start")

\* ------------------------------------------------------------------------
\* HullParameters operations
\* ------------------------------------------------------------------------
\* HullParameters(L, B, T, CB, CM, LCB, S, V, APP), the first call of a
\* session: __init__ stores the arguments, __post_init__ validates and
\* completes; when validation raises, the caller receives no object (and
\* interactive_calculator returns)
Create(L, B, T, CB, CM, LCB, S, V, APP) ==
    LET h == HullInit(L, B, T, CB, CM, LCB, S, V, APP)
        errors == ValidationErrors(h)
    IN  /\ last.op = "start"
        /\ IF errors # <<>>
           THEN /\ hull' = hull
                /\ last' = Outcome("create", "", "ValueError", errors, <<>>,
                                   <<L, B, T, CB, CM, LCB, S, V, APP>>, <<>>)
           ELSE /\ hull' = CalculateMissing(h)
                /\ last' = Outcome("create", "", "", <<>>, <<>>,
                                   <<L, B, T, CB, CM, LCB, S, V, APP>>, <<>>)
        /\ UNCHANGED <<engine, results, language, callerSpeeds>>

\* hull.summary(language)
Summary(languageArg) ==
    /\ HullExists
    /\ last' = Outcome("summary", languageArg, "", <<>>,
                       SummaryLabels(EffectiveLanguage(languageArg, language)),
                       SummaryValues(hull), <<>>)
    /\ UNCHANGED <<hull, engine, results, language, callerSpeeds>>

RecommendationLabels(lang) ==
    IF lang = "portuguese"
    THEN <<"Recomendacao para este casco", "Velocidade maxima recomendada",
           "Velocidade minima sugerida", "Numero de Froude maximo">>
    ELSE <<"Recommendation for this hull", "Recommended maximum speed",
           "Suggested minimum speed", "Maximum Froude number">>

\* get_speed_range_recommendation(hull_params, language)
SpeedRangeRecommendation(languageArg) ==
    LET fn_max == IF FLt(hull.CB, Dec(5, -1)) THEN Dec(45, -2) ELSE Dec(35, -2)
        v_max_kts == FMul(FMul(fn_max, FSqrt(FMul(GRAVITY, hull.L))), Dec(1944, -3))
    IN  /\ HullExists
        /\ last' = Outcome("recommendation", languageArg, "", <<>>,
                           RecommendationLabels(languageArg),
                           <<Dec(2, 0), v_max_kts>>, <<>>)
        /\ UNCHANGED <<hull, engine, results, language, callerSpeeds>>

\* Config.LANGUAGE = ...
SetLanguage(lang) ==
    /\ language # lang
    /\ language' = lang
    /\ UNCHANGED <<hull, engine, results, callerSpeeds, last>>

\* ------------------------------------------------------------------------
\* The caller's speed sequence
\* ------------------------------------------------------------------------
\* speeds[i] = v on the ndarray the caller passed and still holds
WriteSpeed(i, v) ==
    /\ callerSpeeds.kind = "ndarray"
    /\ i \in 1..Len(callerSpeeds.data)
    /\ callerSpeeds.data[i] # v
    /\ callerSpeeds' = [callerSpeeds EXCEPT !.data[i] = v]
    /\ last' = Returned("setitem")
    /\ UNCHANGED <<hull, engine, results, language>>

\* what the caller holds after a completed compute call: the ndarray it
\* passed (now also referred to by self.results), or nothing the engine
\* refers to when it passed a list
HeldAfter(kind, data) ==
    IF AsArrayRef(kind) = "caller"
    THEN [kind |-> kind, data |-> data]
    ELSE NoSpeeds

\* ------------------------------------------------------------------------
\* ResistanceCalculator operations
\* ------------------------------------------------------------------------
\* ResistanceCalculator(hull)
NewEngine ==
    /\ HullExists
    /\ engine = "absent"
    /\ engine' = "ready"
    /\ results' = NoResults
    /\ last' = Returned("init")
    /\ UNCHANGED <<hull, language, callerSpeeds>>

\* calculate_holtrop that first writes the displacement L*B*T*CB into
\* hull_params.V and computes with it
CalculateHoltropResolvingV(kind, data) ==
    LET h == [hull EXCEPT !.V = FMul(FMul(FMul(hull.L, hull.B), hull.T), hull.CB)]
    IN  /\ engine = "ready"
        /\ hull' = h
        /\ results' = HoltropResults(h, data, kind)
        /\ callerSpeeds' = HeldAfter(kind, data)
        /\ last' = Outcome("calculate_holtrop", kind, "", <<>>, <<>>, data, <<>>)
        /\ UNCHANGED <<engine, language>>

\* calculate_holtrop that builds self.results as it goes: the speed, Froude
\* and Reynolds entries are stored before L**3 / V is evaluated
CalculateHoltropStoringEarly(kind, data) ==
    LET full == HoltropResults(hull, data, kind)
    IN  /\ engine = "ready"
        /\ IF HoltropRaises(hull)
           THEN /\ results' = [full EXCEPT !.items = SubSeq(full.items, 1, 4)]
                /\ callerSpeeds' = HeldAfter(kind, data)
                /\ last' = Outcome("calculate_holtrop", kind, "ZeroDivisionError",
                                   <<"float division by zero">>, <<>>, data, <<>>)
           ELSE /\ results' = full
                /\ callerSpeeds' = HeldAfter(kind, data)
                /\ last' = Outcome("calculate_holtrop", kind, "", <<>>, <<>>, data, <<>>)
        /\ UNCHANGED <<hull, engine, language>>

\* calculator.calculate_holtrop(speeds), speeds a list or an ndarray
CalculateHoltrop(kind, data) ==
    /\ engine = "ready"
    /\ IF HoltropRaises(hull)
       THEN /\ results' = results
            /\ callerSpeeds' = callerSpeeds
            /\ last' = Outcome("calculate_holtrop", kind, "ZeroDivisionError",
                               <<"float division by zero">>, <<>>, data, <<>>)
       ELSE /\ results' = HoltropResults(hull, data, kind)
            /\ callerSpeeds' = HeldAfter(kind, data)
            /\ last' = Outcome("calculate_holtrop", kind, "", <<>>, <<>>, data, <<>>)
    /\ UNCHANGED <<hull, engine, language>>

\* calculate_simple with self.results.update(...) in place of the
\* assignment: keys already stored keep their place and take the new value,
\* new keys are appended
CalculateSimpleMerging(kind, data) ==
    LET new == SimpleResults(hull, data, kind)
        newVal(key) == (CHOOSE j \in 1..Len(new.items) : new.items[j].key = key)
        inNew(key) == \E j \in 1..Len(new.items) : new.items[j].key = key
        inOld(it) == \E j \in 1..Len(results.items) : results.items[j].key = it.key
        notInOld(it) == ~inOld(it)
    IN  /\ engine = "ready"
        /\ results' =
             IF results.isNone THEN new
             ELSE [isNone |-> FALSE,
                   items |-> [j \in 1..Len(results.items) |->
                                IF inNew(results.items[j].key)
                                THEN new.items[newVal(results.items[j].key)]
                                ELSE results.items[j]]
                             \o SelectSeq(new.items, notInOld),
                   speedsRef |-> new.speedsRef]
        /\ callerSpeeds' = HeldAfter(kind, data)
        /\ last' = Outcome("calculate_simple", kind, "", <<>>, <<>>, data, <<>>)
        /\ UNCHANGED <<hull, engine, language>>

\* calculator.calculate_simple(speeds), speeds a list or an ndarray
CalculateSimple(kind, data) ==
    /\ engine = "ready"
    /\ results' = SimpleResults(hull, data, kind)
    /\ callerSpeeds' = HeldAfter(kind, data)
    /\ last' = Outcome("calculate_simple", kind, "", <<>>, <<>>, data, <<>>)
    /\ UNCHANGED <<hull, engine, language>>

\* float_format='%.4f' applied to one row of the DataFrame
CsvRow(i) == [j \in 1..Len(results.items) |-> FormatF(ResultField(results.items[j].key)[i], 4)]

\* export_results without its `if self.results is None: raise`: the
\* DataFrame of None is empty and an empty file is written
ExportResultsUnguarded(filename) ==
    /\ engine = "ready"
    /\ last' = Outcome("export_results", filename, "", <<>>, ResultKeys, <<>>,
                       IF results.isNone THEN <<>>
                       ELSE [i \in 1..Len(ResultField("speed_mps")) |-> CsvRow(i)])
    /\ UNCHANGED <<hull, engine, results, language, callerSpeeds>>

\* calculator.export_results(filename)
ExportResults(filename) ==
    /\ engine = "ready"
    /\ IF results.isNone
       THEN last' = NoResultError("export_results")
       ELSE last' = Outcome("export_results", filename, "", <<>>, ResultKeys,
                            <<>>,
                            [i \in 1..Len(ResultField("speed_mps")) |-> CsvRow(i)])
    /\ UNCHANGED <<hull, engine, results, language, callerSpeeds>>

\* the label dictionary of plot_results and the titles chosen inline
PlotLabels(lang) ==
    IF lang = "english"
    THEN <<"Hull Resistance Analysis", "Speed (knots)", "Resistance (kN)",
           "Total Resistance", "Frictional Resistance", "Residual Resistance",
           "Effective Power (kW)", "Froude Number", "Resistance vs Froude Number",
           "Effective Power">>
    ELSE <<"Analise de Resistencia do Casco", "Velocidade (nos)", "Resistencia (kN)",
           "Resistencia Total", "Resistencia de Atrito", "Resistencia Residual",
           "Potencia Efetiva (kW)", "Numero de Froude",
           "Resistencia vs Numero de Froude", "Potencia Efetiva">>

\* calculator.plot_results(language=...): the series drawn are total
\* resistance, then friction and residual when the result has them, then
\* resistance against Froude number and effective power
PlotResults(languageArg) ==
    /\ engine = "ready"
    /\ IF results.isNone
       THEN last' = NoResultError("plot_results")
       ELSE last' = Outcome("plot_results", languageArg, "", <<>>,
                            PlotLabels(EffectiveLanguage(languageArg, language)),
                            <<>>,
                            <<ResultField("resistance_total_kN")>>
                            \o (IF HasKey("resistance_friction_N")
                                THEN <<ResultField("resistance_friction_N"),
                                       ResultField("residual_resistance_N")>>
                                ELSE <<>>)
                            \o <<ResultField("froude"),
                                 ResultField("effective_power_kW")>>)
    /\ UNCHANGED <<hull, engine, results, language, callerSpeeds>>

PrintLabels(lang) ==
    IF lang = "portuguese"
    THEN <<"RESULTADOS DA ANALISE", "Veloc (nos)", "Veloc (m/s)", "Froude",
           "Resist (kN)", "Potencia (kW)">>
    ELSE <<"ANALYSIS RESULTS", "Speed (kts)", "Speed (m/s)", "Froude",
           "Resistance (kN)", "Power (kW)">>

Min(a, b) == IF a < b THEN a ELSE b

\* calculator.print_summary(language): at most the first ten samples
PrintSummary(languageArg) ==
    /\ engine = "ready"
    /\ IF results.isNone
       THEN last' = NoResultError("print_summary")
       ELSE last' = Outcome("print_summary", languageArg, "", <<>>,
                            PrintLabels(EffectiveLanguage(languageArg, language)),
                            <<>>,
                            [i \in 1..Min(10, Len(ResultField("speed_mps"))) |->
                               <<FormatF(ResultField("speed_knots")[i], 1),
                                 FormatF(ResultField("speed_mps")[i], 2),
                                 FormatF(ResultField("froude")[i], 3),
                                 FormatF(ResultField("resistance_total_kN")[i], 1),
                                 FormatF(ResultField("effective_power_kW")[i], 1)>>])
    /\ UNCHANGED <<hull, engine, results, language, callerSpeeds>>

\* ------------------------------------------------------------------------
\* Specifications
\* ------------------------------------------------------------------------
\* the engine of a calculator session: one hull, one engine, compute calls
\* with any sweep, the caller writing to the array it passed, and export,
\* plot and print with the language and file arguments left at their defaults
Next ==
    \/ \E L \in EngineHullL, V \in EngineHullV :
         Create(L, Dec(5, -1), Dec(25, -2), Dec(7, -1), None, None, None, V, None)
    \/ \E i \in 1..MaxN, v \in WriteValues : WriteSpeed(i, v)
    \/ NewEngine
    \/ \E kind \in SpeedKinds, data \in SpeedSeqs : CalculateHoltrop(kind, data)
    \/ \E kind \in SpeedKinds, data \in SpeedSeqs : CalculateSimple(kind, data)
    \/ ExportResults("None")
    \/ PlotResults("None")
    \/ PrintSummary("None")

Spec == Init /\ [][Next]_vars

\* a session with every operation of the program, in which Config.LANGUAGE
\* is reassigned between the calls and every language and file argument is
\* tried; the engine computes one sweep
LocaleSweep == <<Zero, Dec(2, 0)>>

NextLocale ==
    \/ \E V \in EngineHullV :
         Create(Dec(11892, -4), Dec(5, -1), Dec(25, -2), Dec(7, -1),
                None, None, None, V, None)
    \/ \E l \in Languages : SetLanguage(l)
    \/ \E a \in LanguageArgs : Summary(a)
    \/ \E a \in Languages : SpeedRangeRecommendation(a)
    \/ NewEngine
    \/ \E kind \in SpeedKinds : CalculateHoltrop(kind, LocaleSweep)
    \/ \E kind \in SpeedKinds : CalculateSimple(kind, LocaleSweep)
    \/ WriteSpeed(1, Dec(1, -4))
    \/ \E f \in {"None", "out.csv"} : ExportResults(f)
    \/ \E a \in LanguageArgs : PlotResults(a)
    \/ \E a \in LanguageArgs : PrintSummary(a)

SpecLocale == Init /\ [][NextLocale]_vars

\* construction of hulls: every combination of accepted and rejected
\* required fields, every optional field supplied or left unset
HullL == {NaN, Zero, Dec(150, 0)}

HullB == {Dec(-2, 0), Dec(20, 0)}

HullT == {Zero, Dec(8, 0)}

HullCB == {NaN, Dec(2999, -4), Dec(3, -1), Dec(7, -1), Dec(1, 0), Dec(10001, -4),
           Dec(2, 0)}

Supplied(x) == {None, x}

NextHull ==
    \/ \E L \in HullL, B \in HullB, T \in HullT, CB \in HullCB,
          CM \in Supplied(Dec(95, -2)), LCB \in Supplied(Dec(-2, 0)),
          S \in Supplied(Dec(5000, 0)), V \in Supplied(Dec(12000, 0)),
          APP \in Supplied(Dec(30, 0)) :
         Create(L, B, T, CB, CM, LCB, S, V, APP)
    \/ \E a \in LanguageArgs : Summary(a)
    \/ \E a \in Languages : SpeedRangeRecommendation(a)

SpecHull == Init /\ [][NextHull]_vars

\* ------------------------------------------------------------------------
\* Properties
\* ------------------------------------------------------------------------
PresentationOps == {"export_results", "plot_results", "print_summary"}

ComputeOps == {"calculate_holtrop", "calculate_simple"}

ComputeCompleted(o) == o.op \in ComputeOps /\ o.raised = ""

\* Empty is results = None, HasResult is results holding a dictionary
C1_State ==
    /\ last.op = "init" => results.isNone
    /\ ComputeCompleted(last) => ~results.isNone
    /\ last.op \in PresentationOps => (IsNoResultError(last) <=> results.isNone)

C1_Step ==
    /\ ~results.isNone => ~results'.isNone
    /\ (results.isNone /\ ~results'.isNone) => ComputeCompleted(last')

\* C1: export, plot and print_summary raise the no-result error exactly
\* while the engine is Empty, which it is from construction until the first
\* compute call completes; once a compute call has completed none of them
\* raises it, and no step takes the engine from HasResult back to Empty.
C1_NoResultErrorIffEmpty == [](C1_State) /\ [][C1_Step]_vars

\* export was refused on an engine that has computed nothing yet
C1_Witness ==
    /\ engine = "ready"
    /\ results.isNone
    /\ last.op = "export_results"
    /\ IsNoResultError(last)

\* the rules of the geometry as the specification states them, applied to
\* the arguments of the constructor call recorded in `last`
RuleL(a) == FLt(Zero, a[1])

RuleB(a) == FLt(Zero, a[2])

RuleT(a) == FLt(Zero, a[3])

RuleCB(a) == FLe(Dec(3, -1), a[4]) /\ FLe(a[4], Dec(1, 0))

ViolatedRules(a) ==
    (IF RuleL(a) THEN <<>> ELSE <<"L">>)
    \o (IF RuleB(a) THEN <<>> ELSE <<"B">>)
    \o (IF RuleT(a) THEN <<>> ELSE <<"T">>)
    \o (IF RuleCB(a) THEN <<>> ELSE <<"CB", "hint">>)

ListedRules(o) == [i \in 1..Len(o.msg) |-> o.msg[i].rule]

\* C2: a constructor call whose (L, B, T, CB) violates one or more of
\* L > 0, B > 0, T > 0, 0.3 <= CB <= 1.0 raises one ValueError that lists
\* every violated rule in the order L, B, T, CB, the guidance note following
\* exactly when the CB rule is violated.
C2_AllViolationsListed ==
    (last.op = "create" /\ ViolatedRules(last.values) # <<>>)
        => /\ last.raised = "ValueError"
           /\ ListedRules(last) = ViolatedRules(last.values)

\* C3: construction succeeds if and only if L > 0, B > 0, T > 0 and
\* 0.3 <= CB <= 1.0 (both bounds inclusive); every hull that exists
\* satisfies the four constraints and a rejected call leaves no object.
C3_AcceptedIffValid ==
    /\ last.op = "create"
         => /\ (last.raised = "") <=> (ViolatedRules(last.values) = <<>>)
            /\ (last.raised = "") <=> HullExists
    /\ HullExists => ViolatedRules(<<hull.L, hull.B, hull.T, hull.CB>>) = <<>>

\* the field sets of the two methods
HoltropFieldSet ==
    {"speed_mps", "speed_knots", "froude", "reynolds", "cf_coefficient",
     "resistance_friction_N", "residual_resistance_N", "resistance_total_N",
     "resistance_total_kN", "effective_power_kW"}

SimpleFieldSet ==
    {"speed_mps", "speed_knots", "froude", "resistance_total_N",
     "resistance_total_kN", "effective_power_kW"}

StoredFieldSet == {results.items[j].key : j \in 1..Len(results.items)}

C4_State ==
    /\ Cardinality(StoredFieldSet) = Len(results.items)
    /\ ~results.isNone => StoredFieldSet \in {HoltropFieldSet, SimpleFieldSet}
    /\ (last.op = "calculate_holtrop" /\ last.raised = "")
         => StoredFieldSet = HoltropFieldSet
    /\ (last.op = "calculate_simple" /\ last.raised = "")
         => StoredFieldSet = SimpleFieldSet

C4_Step == StoredFieldSet' # StoredFieldSet => ComputeCompleted(last')

\* C4: the engine stores one result dictionary and a compute call replaces
\* it: the stored field set is exactly that of the method that completed
\* last (ten fields for Holtrop, six for the simplified method), so nothing
\* of a Holtrop result remains after calculate_simple, and the field set
\* changes only in a step that completes a compute call.
C4_ResultReplaced == [](C4_State) /\ [][C4_Step]_vars

\* calculate_simple has completed and the stored result has no Holtrop field
C4_Witness ==
    /\ last.op = "calculate_simple"
    /\ last.raised = ""
    /\ ~results.isNone
    /\ ~HasKey("reynolds")
    /\ HasKey("froude")

C6_CompletionFillsOnlyUnset ==
    (last.op = "create" /\ ViolatedRules(last.values) = <<>>)
        => LET a == last.values
           IN  /\ last.raised = ""
               /\ <<hull.L, hull.B, hull.T, hull.CB>> = <<a[1], a[2], a[3], a[4]>>
               /\ hull.CM = (IF a[5] = None THEN Dec(98, -2) ELSE a[5])
               /\ hull.LCB = (IF a[6] = None THEN Dec(5, -1) ELSE a[6])
               /\ hull.V = (IF a[8] = None
                            THEN FMul(FMul(FMul(a[1], a[2]), a[3]), a[4])
                            ELSE a[8])
               /\ hull.S = (IF a[7] = None
                            THEN WettedSurface(hull, IF a[8] = None
                                                     THEN FMul(FMul(FMul(a[1], a[2]), a[3]), a[4])
                                                     ELSE a[8])
                            ELSE a[7])
               /\ hull.APP = (IF a[9] = None THEN PropellerArea(hull) ELSE a[9])

\* a valid hull built with V supplied and S left to be derived
C6_Witness ==
    /\ last.op = "create"
    /\ last.raised = ""
    /\ ViolatedRules(last.values) = <<>>
    /\ last.values[8] # None
    /\ last.values[7] = None
    /\ hull.V = last.values[8]
    /\ hull.S # None

\* the speed is negative, or makes log10(Rn) = 2 for the hull at hand
SingularSpeed(v) ==
    \/ FLt(v, Zero)
    \/ FEq(FLog10(FDivNp(FMul(v, hull.L), KINEMATIC_VISCOSITY)), Dec(2, 0))

\* C7: calculate_holtrop raises a numeric-domain error, and stores nothing,
\* whenever a supplied speed is negative or makes Rn = 100; no stored result
\* holds an infinite or undefined friction coefficient.
C7_SingularSpeedsRejected ==
    /\ (last.op = "calculate_holtrop"
          /\ \E i \in 1..Len(last.values) : SingularSpeed(last.values[i]))
         => last.raised = "NumericDomainError"
    /\ (~results.isNone /\ HasKey("cf_coefficient"))
         => \A i \in 1..Len(ResultField("cf_coefficient")) :
               IsFin(ResultField("cf_coefficient")[i])

\* C8: a speed equal to 0 is accepted by both methods: the call raises
\* nothing, no field of that sample is NaN or infinite, calculate_simple
\* gives Fn = 0, RT = 0 and P = 0 and calculate_holtrop gives RR = 0.
C8_ZeroSpeedDefined ==
    last.op \in ComputeOps
        => \A i \in 1..Len(last.values) :
              FEq(last.values[i], Zero)
                 => /\ last.raised = ""
                    /\ \A key \in StoredFieldSet : IsFin(ResultField(key)[i])
                    /\ last.op = "calculate_simple"
                         => /\ FEq(ResultField("froude")[i], Zero)
                            /\ FEq(ResultField("resistance_total_N")[i], Zero)
                            /\ FEq(ResultField("effective_power_kW")[i], Zero)
                    /\ last.op = "calculate_holtrop"
                         => FEq(ResultField("residual_resistance_N")[i], Zero)

\* C9: every field of the stored result has one entry per input speed and
\* entry i of every field belongs to input speed i, from the compute call
\* on and in every later state until the next compute call, whatever the
\* caller does with the sequence it passed.
C9_FieldsParallel ==
    ~results.isNone
        => /\ \A key \in StoredFieldSet :
                 Len(ResultField(key)) = Len(ResultField("speed_mps"))
           /\ ComputeCompleted(last) => ResultField("speed_mps") = last.values
           /\ \A i \in 1..Len(ResultField("speed_knots")) :
                 ResultField("speed_knots")[i]
                    = FMul(ResultField("speed_mps")[i], Dec(1944, -3))

LabelOps == {"summary", "plot_results", "print_summary"}

\* C10: the labels of summary, print_summary and plot_results depend on the
\* language argument of the call only: a call that repeats the previous
\* call with the same argument shows the same labels, whatever
\* Config.LANGUAGE is at the time of either call.
C10_LabelsByParameter ==
    [][(/\ last.op \in LabelOps
        /\ last'.op = last.op
        /\ last'.arg = last.arg
        /\ last.raised = ""
        /\ last'.raised = "")
          => last'.labels = last.labels]_vars

\* the columns in the order the specification lists the fields
ListedHoltropColumns ==
    <<"speed_mps", "speed_knots", "froude", "reynolds", "cf_coefficient",
      "resistance_friction_N", "residual_resistance_N", "resistance_total_N",
      "resistance_total_kN", "effective_power_kW">>

ListedSimpleColumns ==
    <<"speed_mps", "speed_knots", "froude", "resistance_total_N",
      "resistance_total_kN", "effective_power_kW">>

\* C11: a completed export writes the field names of the stored result as
\* the header, in the order speed (m/s, knots), Fn, Rn, CF, RF, RR, RT (N,
\* kN), P for a Holtrop result and speed (m/s, knots), Fn, RT (N, kN), P
\* for a simple one, followed by one row per sample with one cell per column.
C11_ExportColumnOrder ==
    (last.op = "export_results" /\ last.raised = "")
        => /\ last.labels = (IF HasKey("reynolds") THEN ListedHoltropColumns
                             ELSE ListedSimpleColumns)
           /\ Len(last.rows) = Len(ResultField("speed_mps"))
           /\ \A i \in 1..Len(last.rows) : Len(last.rows[i]) = Len(last.labels)

ComputeFailed(o) == o.op \in ComputeOps /\ o.raised # ""

\* after a failed compute call the engine is Empty or holds a whole result
C12_State ==
    ComputeFailed(last)
        => \/ results.isNone
           \/ /\ StoredFieldSet \in {HoltropFieldSet, SimpleFieldSet}
              /\ \A key \in StoredFieldSet :
                    Len(ResultField(key)) = Len(ResultField("speed_mps"))

C12_Step ==
    /\ ComputeFailed(last') => (results' = results /\ callerSpeeds' = callerSpeeds)
    /\ (ComputeFailed(last) /\ results.isNone /\ last'.op \in PresentationOps)
         => IsNoResultError(last')

\* C12: a compute call that raises leaves the stored result exactly as it
\* was: an Empty engine stays Empty and export, plot and print_summary still
\* raise the no-result error, and an engine with a result keeps that result
\* whole, never a partly written one.
C12_FailedComputeKeepsResult == [](C12_State) /\ [][C12_Step]_vars

\* calculate_holtrop raised on an engine that holds a simple result
C12_Witness ==
    /\ last.op = "calculate_holtrop"
    /\ last.raised = "ZeroDivisionError"
    /\ ~results.isNone
    /\ StoredFieldSet = SimpleFieldSet
====
